------------------------------ MODULE Spec2Model ------------------------------
(***************************************************************************)
(* The WhatsApp chat analyzer of src/app.py: one run of the Streamlit      *)
(* script, from the uploaded text to the last tab.  Texts are sequences of *)
(* characters, each a one-character string; "<clover>" and "<joy>" stand   *)
(* for the single code points U+1F340 and U+1F602.                         *)
(***************************************************************************)
EXTENDS Integers, Sequences, FiniteSets, TLC

\* The longest upload, in lines.
MaxLines == 3

-----------------------------------------------------------------------------
(* Characters *)

DigitSeq == <<"0", "1", "2", "3", "4", "5", "6", "7", "8", "9">>
UpperSeq == <<"A", "B", "C", "D", "E", "F", "G", "H", "I", "J", "K", "L", "M",
              "N", "O", "P", "Q", "R", "S", "T", "U", "V", "W", "X", "Y", "Z">>
LowerSeq == <<"a", "b", "c", "d", "e", "f", "g", "h", "i", "j", "k", "l", "m",
              "n", "o", "p", "q", "r", "s", "t", "u", "v", "w", "x", "y", "z">>

Range(s) == {s[i] : i \in DOMAIN s}
IndexOf(s, c) == CHOOSE i \in DOMAIN s : s[i] = c

\* \d of the pattern
IsDigit(c) == c \in Range(DigitSeq)
DigitVal(c) == IndexOf(DigitSeq, c) - 1
\* [a-zA-Z] of the word pattern
IsLetter(c) == c \in Range(UpperSeq) \cup Range(LowerSeq)
\* \w, which decides where \b holds
IsWordChar(c) == IsLetter(c) \/ IsDigit(c) \/ c = "_"
\* what str.strip() and str.split() take for whitespace
IsSpace(c) == c \in {" ", "\t", "\n", "\r"}
\* the members of emoji.EMOJI_DATA among the characters used here
EMOJI_DATA == {"<clover>", "<joy>"}

\* str.lower(), one character
LowerChar(c) == IF c \in Range(UpperSeq) THEN LowerSeq[IndexOf(UpperSeq, c)] ELSE c
\* str.lower()
Lower(s) == [i \in DOMAIN s |-> LowerChar(s[i])]

\* str.strip()
Strip(s) ==
  LET keep == {i \in DOMAIN s : ~IsSpace(s[i])}
  IN  IF keep = {} THEN <<>>
      ELSE SubSeq(s, CHOOSE i \in keep : \A j \in keep : i <= j,
                     CHOOSE i \in keep : \A j \in keep : j <= i)

\* len(s.split()): the maximal runs of non-whitespace
SplitCount(s) ==
  Cardinality({i \in DOMAIN s : ~IsSpace(s[i]) /\ (i = 1 \/ IsSpace(s[i - 1]))})

\* sum(1 for ch in s if ch in emoji.EMOJI_DATA)
EmojiCount(s) == Cardinality({i \in DOMAIN s : s[i] \in EMOJI_DATA})

\* sep.join(parts)
RECURSIVE Join(_, _)
Join(parts, sep) ==
  IF parts = <<>> THEN <<>>
  ELSE IF Len(parts) = 1 THEN parts[1]
  ELSE parts[1] \o sep \o Join(Tail(parts), sep)

-----------------------------------------------------------------------------
(* Inputs: the default chat of the script and the lines an upload is made of *)

\* "20/09/2025, 10:00 - Shivam: Best of luck for exams! (four leaf clover)"
default_chat ==
  <<
    "2", "0", "/", "0", "9", "/", "2", "0", "2", "5", ",", " ", "1", "0", ":", "0", "0", " ",
    "-", " ", "S", "h", "i", "v", "a", "m", ":", " ", "B", "e", "s", "t", " ", "o", "f", " ",
    "l", "u", "c", "k", " ", "f", "o", "r", " ", "e", "x", "a", "m", "s", "!", " ", "<clover>"
  >>

\* "20/09/2025, 10:00 - A: the cat and the hat"
LineStopwords ==
  <<
    "2", "0", "/", "0", "9", "/", "2", "0", "2", "5", ",", " ", "1", "0", ":", "0", "0", " ",
    "-", " ", "A", ":", " ", "t", "h", "e", " ", "c", "a", "t", " ", "a", "n", "d", " ", "t",
    "h", "e", " ", "h", "a", "t"
  >>

\* "20/09/2025, 10:05 - B: Hat's it (joy)" followed by a carriage return
LineReply ==
  <<
    "2", "0", "/", "0", "9", "/", "2", "0", "2", "5", ",", " ", "1", "0", ":", "0", "5", " ",
    "-", " ", "B", ":", " ", "H", "a", "t", "'", "s", " ", "i", "t", " ", "<joy>", "\r"
  >>

\* "20/09/2025, 09:00 - A: the": earlier than the others, stopword only
LineEarlier ==
  <<
    "2", "0", "/", "0", "9", "/", "2", "0", "2", "5", ",", " ", "0", "9", ":", "0", "0", " ",
    "-", " ", "A", ":", " ", "t", "h", "e"
  >>

\* "99/13/2025, 25:61 - A: cat": the shape matches, the date does not exist
LineBadDate ==
  <<
    "9", "9", "/", "1", "3", "/", "2", "0", "2", "5", ",", " ", "2", "5", ":", "6", "1", " ",
    "-", " ", "A", ":", " ", "c", "a", "t"
  >>

\* "20/09/2025, 10:01 - Alice joined": a system line, no "Sender: " segment
LineSystem ==
  <<
    "2", "0", "/", "0", "9", "/", "2", "0", "2", "5", ",", " ", "1", "0", ":", "0", "1", " ",
    "-", " ", "A", "l", "i", "c", "e", " ", "j", "o", "i", "n", "e", "d"
  >>

\* "note: hat": a continuation line, no timestamp
LineContinuation ==
  <<
    "n", "o", "t", "e", ":", " ", "h", "a", "t"
  >>

\* "20/09/2025 - A: hat": the HH:MM segment is missing
LineNoTime ==
  <<
    "2", "0", "/", "0", "9", "/", "2", "0", "2", "5", " ", "-", " ", "A", ":", " ", "h", "a",
    "t"
  >>

\* "29/02/2024, 23:59 -  :  ": the name segment is one space, the body another
LineBlankName ==
  <<
    "2", "9", "/", "0", "2", "/", "2", "0", "2", "4", ",", " ", "2", "3", ":", "5", "9", " ",
    "-", " ", " ", ":", " ", " "
  >>

\* "21/09/2025, 00:00 - C: z z y b c ... x ab cd": 26 distinct non-stopwords
LineManyWords ==
  <<
    "2", "1", "/", "0", "9", "/", "2", "0", "2", "5", ",", " ", "0", "0", ":", "0", "0", " ",
    "-", " ", "C", ":", " ", "z", " ", "z", " ", "y", " ", "b", " ", "c", " ", "d", " ", "e",
    " ", "f", " ", "g", " ", "h", " ", "j", " ", "k", " ", "l", " ", "m", " ", "n", " ", "o",
    " ", "p", " ", "q", " ", "r", " ", "s", " ", "t", " ", "u", " ", "v", " ", "w", " ", "x",
    " ", "a", "b", " ", "c", "d"
  >>

stopwords ==
  { <<"t", "h", "e">>,
    <<"i", "s">>,
    <<"a", "n", "d">>,
    <<"t", "o">>,
    <<"a">>,
    <<"o", "f">>,
    <<"i", "n">>,
    <<"o", "n">>,
    <<"i", "t">>,
    <<"f", "o", "r">>,
    <<"t", "h", "a", "t">>,
    <<"m", "e">>,
    <<"i">>,
    <<"y", "o", "u">>,
    <<"m", "y">> }

STOPWORDS ==
  { <<"t", "h", "e">>,
    <<"i", "s">>,
    <<"a", "n", "d">>,
    <<"t", "o">>,
    <<"a">>,
    <<"o", "f">>,
    <<"i", "n">>,
    <<"o", "n">>,
    <<"i", "t">>,
    <<"f", "o", "r">>,
    <<"t", "h", "a", "t">>,
    <<"m", "e">>,
    <<"i">>,
    <<"y", "o", "u">>,
    <<"m", "y">>,
    <<"h", "e">>,
    <<"s", "h", "e">>,
    <<"w", "e">>,
    <<"t", "h", "e", "y">>,
    <<"a", "r", "e">>,
    <<"w", "a", "s">>,
    <<"t", "h", "i", "s">> }

SampleLines ==
  { LineStopwords, LineReply, LineEarlier, LineBadDate, LineSystem, LineContinuation,
    LineNoTime, LineBlankName, LineManyWords }

-----------------------------------------------------------------------------
\* re.findall(pattern, text): a date of \d{2}/\d{2}/\d{4}, then ", ", a time of
\* \d{2}:\d{2}, then " - ", a name of [^:]+, then ": ", then the rest of the line.

\* The literal characters of the pattern before the name group, by offset from
\* the start of a match; every other offset below 20 is a \d.
PrefixLiterals ==
  [o \in {2, 5, 10, 11, 14, 17, 18, 19} |->
     CASE o \in {2, 5} -> "/"
       [] o = 10 -> ","
       [] o \in {11, 17, 19} -> " "
       [] o = 14 -> ":"
       [] o = 18 -> "-"]

\* offset of the first character the name group can take
NameOffset == 20

\* "\d{2}/\d{2}/\d{4}, \d{2}:\d{2} - " matches text at position p
PrefixMatches(text, p) ==
  /\ p + NameOffset - 1 <= Len(text)
  /\ \A o \in 0..(NameOffset - 1) :
       IF o \in DOMAIN PrefixLiterals THEN text[p + o] = PrefixLiterals[o]
       ELSE IsDigit(text[p + o])

\* the least member of a non-empty set of positions
First(ps) == CHOOSE p \in ps : \A q \in ps : p <= q

\* the number of characters from position s on that [^:] takes (newlines too):
\* all up to the next colon
ColonFreeRun(text, s) ==
  LET colons == {c \in s..Len(text) : text[c] = ":"}
  IN  IF colons = {} THEN Len(text) - s + 1 ELSE First(colons) - s

\* The lengths the name group can have at s with ": " right after it; the greedy
\* quantifier tries the longest first.
NameLengths(text, s) ==
  {k \in 1..ColonFreeRun(text, s) :
     /\ s + k + 1 <= Len(text)
     /\ text[s + k] = ":"
     /\ text[s + k + 1] = " "}

\* as DotStarEnd, were the pattern compiled with re.DOTALL: the group runs to
\* the end of the text
DotStarEndDotAll(text, s) == Len(text)

\* the last position the final group (dot, star) takes from s on: it stops
\* before a newline
DotStarEnd(text, s) ==
  LET newlines == {c \in s..Len(text) : text[c] = "\n"}
  IN  IF newlines = {} THEN Len(text) ELSE First(newlines) - 1

NoMatch == [found |-> FALSE]

\* the match of the pattern that starts at p, with its five groups
MatchAt(text, p) ==
  IF ~PrefixMatches(text, p) THEN NoMatch
  ELSE LET s  == p + NameOffset
           ks == NameLengths(text, s)
       IN  IF ks = {} THEN NoMatch
           ELSE LET k == CHOOSE x \in ks : \A y \in ks : y <= x
                    e == DotStarEnd(text, s + k + 2)
                IN  [found    |-> TRUE,
                     date_str |-> SubSeq(text, p, p + 9),
                     hour     |-> SubSeq(text, p + 12, p + 13),
                     minute   |-> SubSeq(text, p + 15, p + 16),
                     name     |-> SubSeq(text, s, s + k - 1),
                     message  |-> SubSeq(text, s + k + 2, e),
                     end      |-> e]

\* re.findall: the leftmost match from p on, then on from where it ended.  Only
\* a position where the prefix matches can start a match.
RECURSIVE FindAll(_, _)
FindAll(text, p) ==
  LET starts == {q \in p..Len(text) : PrefixMatches(text, q)}
  IN  IF starts = {} THEN <<>>
      ELSE LET m == MatchAt(text, First(starts))
           IN  IF m.found THEN <<m>> \o FindAll(text, m.end + 1)
               ELSE FindAll(text, First(starts) + 1)

-----------------------------------------------------------------------------
(* datetime.strptime(..., "%d/%m/%Y, %H:%M") and dt.timestamp() *)

Num2(s) == 10 * DigitVal(s[1]) + DigitVal(s[2])
Num4(s) == 1000 * DigitVal(s[1]) + 100 * DigitVal(s[2]) + 10 * DigitVal(s[3]) + DigitVal(s[4])

IsLeap(y) == y % 4 = 0 /\ (y % 100 # 0 \/ y % 400 = 0)
DaysInMonth(y, m) ==
  IF m = 2 THEN (IF IsLeap(y) THEN 29 ELSE 28)
  ELSE IF m \in {4, 6, 9, 11} THEN 30 ELSE 31

\* The fields strptime reads and whether it accepts them; it raises ValueError
\* when it does not.
Strptime(date_str, hour, minute) ==
  LET d  == Num2(SubSeq(date_str, 1, 2))
      mo == Num2(SubSeq(date_str, 4, 5))
      y  == Num4(SubSeq(date_str, 7, 10))
      h  == Num2(hour)
      mi == Num2(minute)
  IN  [ok |-> /\ mo \in 1..12
              /\ y >= 1
              /\ d \in 1..DaysInMonth(y, mo)
              /\ h \in 0..23
              /\ mi \in 0..59,
       year |-> y, month |-> mo, day |-> d, hour |-> h, minute |-> mi]

\* days from 1970-01-01 to the date, proleptic Gregorian
DaysFromEpoch(y, m, d) ==
  LET yy  == IF m <= 2 THEN y - 1 ELSE y
      era == yy \div 400
      yoe == yy - era * 400
      mp  == IF m > 2 THEN m - 3 ELSE m + 9
      doy == (153 * mp + 2) \div 5 + d - 1
      doe == yoe * 365 + yoe \div 4 - yoe \div 100 + doy
  IN  era * 146097 + doe - 719468

\* int(dt.timestamp() // 60), the local zone taken to be UTC
TotalMinutes(dt) ==
  DaysFromEpoch(dt.year, dt.month, dt.day) * 1440 + dt.hour * 60 + dt.minute

-----------------------------------------------------------------------------
(* parse_chat *)

\* the row parse_chat appends for one match
ChatRow(m) ==
  LET dt == Strptime(m.date_str, m.hour, m.minute)
  IN  [Datetime    |-> <<dt.year, dt.month, dt.day, dt.hour, dt.minute>>,
       Date        |-> <<dt.year, dt.month, dt.day>>,
       Minutes     |-> TotalMinutes(dt),
       User        |-> Strip(m.name),
       Message     |-> Strip(m.message),
       Letters     |-> Len(m.message),
       Words       |-> SplitCount(m.message),
       Emoji_Count |-> EmojiCount(m.message)]

\* parse_chat(text): the rows, or the ValueError of the first match strptime
\* refuses (nothing catches it)
parse_chat(text) ==
  LET matches == FindAll(text, 1)
      bad     == {i \in DOMAIN matches :
                    ~Strptime(matches[i].date_str, matches[i].hour, matches[i].minute).ok}
  IN  IF bad # {} THEN [raised |-> TRUE, rows |-> <<>>]
      ELSE [raised |-> FALSE, rows |-> [i \in DOMAIN matches |-> ChatRow(matches[i])]]

-----------------------------------------------------------------------------
(* summarize_data *)

\* df[col].sum() over the rows whose index is in idx
RECURSIVE SumOver(_, _, _)
SumOver(df, col, idx) ==
  IF idx = {} THEN 0
  ELSE LET i == CHOOSE x \in idx : TRUE
       IN  df[i][col] + SumOver(df, col, idx \ {i})

\* num / den * scale rounded to an integer, halves to even; "NaN" for 0 / 0 and
\* "inf" for n / 0.  Series.round(2) of a percentage is RoundedRatio(n * 100, d, 100)
\* hundredths.
RoundedRatio(num, den, scale) ==
  IF den = 0 THEN (IF num = 0 THEN "NaN" ELSE "inf")
  ELSE LET n2 == 2 * num * scale + den
           q  == n2 \div (2 * den)
       IN  IF n2 % (2 * den) = 0 /\ q % 2 = 1 THEN q - 1 ELSE q

\* as CountMessages, were an empty Message taken for a missing one
CountNonEmptyMessages(df, idx) == Cardinality({i \in idx : df[i].Message # <<>>})

\* agg "count" of the Message column: the rows of the group whose Message is
\* not null, and parse_chat stores a string (an empty one too) in every row
CountMessages(df, idx) == Cardinality(idx)

\* one row of groupby(...).agg(...) with the two ratio columns
GroupRow(df, idx) ==
  LET msgs    == CountMessages(df, idx)
      letters == SumOver(df, "Letters", idx)
      emojis  == SumOver(df, "Emoji_Count", idx)
  IN  [Messages       |-> msgs,
       Words          |-> SumOver(df, "Words", idx),
       Letters        |-> letters,
       Emoji_Count    |-> emojis,
       EmojiPerMsg    |-> RoundedRatio(emojis * 100, msgs, 100),
       EmojiPerLetter |-> RoundedRatio(emojis * 100, letters, 10000)]

\* df.groupby(...): the groups by key, each the indices of its rows; keys[i] is
\* the key of row i
GroupBy(df, keys) ==
  [k \in Range(keys) |-> {i \in DOMAIN df : keys[i] = k}]

UserKey(df) == [i \in DOMAIN df |-> df[i].User]
DayUserKey(df) == [i \in DOMAIN df |-> <<df[i].Date, df[i].User>>]
DateKey(df) == [i \in DOMAIN df |-> df[i].Date]

Totals(df) ==
  [Messages |-> Len(df),
   Words    |-> SumOver(df, "Words", DOMAIN df),
   Letters  |-> SumOver(df, "Letters", DOMAIN df),
   Emojis   |-> SumOver(df, "Emoji_Count", DOMAIN df)]

Daywise(df) ==
  LET g == GroupBy(df, DayUserKey(df)) IN [k \in DOMAIN g |-> GroupRow(df, g[k])]

Userwise(df) ==
  LET g == GroupBy(df, UserKey(df)) IN [k \in DOMAIN g |-> GroupRow(df, g[k])]

-----------------------------------------------------------------------------
(* Counter(...).most_common(n) *)

\* the distinct items among items[lo..hi] in the order each was first met
RECURSIVE FirstSeenIn(_, _, _)
FirstSeenIn(items, lo, hi) ==
  IF lo > hi THEN <<>>
  ELSE IF lo = hi THEN <<items[lo]>>
  ELSE LET mid   == (lo + hi) \div 2
           left  == FirstSeenIn(items, lo, mid)
           right == FirstSeenIn(items, mid + 1, hi)
           New(x) == x \notin Range(left)
       IN  left \o SelectSeq(right, New)

\* the keys of Counter(items): the distinct items in the order each was first met
FirstSeen(items) == FirstSeenIn(items, 1, Len(items))

Occurrences(items, x) == Cardinality({i \in DOMAIN items : items[i] = x})

\* as InsertAfterEquals, were the sort not stable: a pair goes before the pairs
\* that count the same
InsertBeforeEquals(sorted, pair) ==
  LET before == {i \in DOMAIN sorted : sorted[i][2] > pair[2]}
      n      == Cardinality(before)
  IN  SubSeq(sorted, 1, n) \o <<pair>> \o SubSeq(sorted, n + 1, Len(sorted))

\* where the stable descending sort puts a pair: after every pair that counts
\* at least as much
InsertAfterEquals(sorted, pair) ==
  LET before == {i \in DOMAIN sorted : sorted[i][2] >= pair[2]}
      n      == Cardinality(before)
  IN  SubSeq(sorted, 1, n) \o <<pair>> \o SubSeq(sorted, n + 1, Len(sorted))

\* sorted(pairs, key=count, reverse=True), which is stable
RECURSIVE SortByCount(_)
SortByCount(pairs) ==
  IF pairs = <<>> THEN <<>>
  ELSE InsertAfterEquals(SortByCount(SubSeq(pairs, 1, Len(pairs) - 1)), pairs[Len(pairs)])

most_common(items, n) ==
  LET keys   == FirstSeen(items)
      pairs  == [i \in DOMAIN keys |-> <<keys[i], Occurrences(items, keys[i])>>]
      ranked == SortByCount(pairs)
  IN  SubSeq(ranked, 1, IF Len(ranked) < n THEN Len(ranked) ELSE n)

-----------------------------------------------------------------------------
(* WordCloud tab *)

\* how many entries the word table keeps
TopWords == 25
\* how many entries the emoji table keeps
TopEmojis == 10

\* \b at position p: between a \w and a non-\w (or an end of the text)
WordBoundary(text, p) ==
  LET left  == p > 1 /\ IsWordChar(text[p - 1])
      right == p <= Len(text) /\ IsWordChar(text[p])
  IN  left # right

IsTokenChar(c) == IsLetter(c) \/ c = "'"

\* the number of characters from position s on that [a-zA-Z']+ can take
RECURSIVE TokenRun(_, _)
TokenRun(text, s) ==
  IF s > Len(text) \/ ~IsTokenChar(text[s]) THEN 0 ELSE 1 + TokenRun(text, s + 1)

\* the lengths \b[a-zA-Z']+\b can match with at p; the longest is taken
TokenLengths(text, p) ==
  IF ~WordBoundary(text, p) THEN {}
  ELSE {k \in 1..TokenRun(text, p) : WordBoundary(text, p + k)}

\* where the run of [a-zA-Z'] characters that holds position p starts
RECURSIVE RunStart(_, _)
RunStart(text, p) ==
  IF p = 1 \/ ~IsTokenChar(text[p - 1]) THEN p ELSE RunStart(text, p - 1)

\* the scan of re.findall from p to the end e of a run: the leftmost match, the
\* longest there, then on from where it ended
RECURSIVE RunWords(_, _, _)
RunWords(text, p, e) ==
  IF p > e THEN <<>>
  ELSE LET ks == TokenLengths(text, p)
       IN  IF ks = {} THEN RunWords(text, p + 1, e)
           ELSE LET k == CHOOSE x \in ks : \A y \in ks : y <= x
                IN  <<SubSeq(text, p, p + k - 1)>> \o RunWords(text, p + k, e)

\* The matches between lo and hi, neither inside a run that reaches out of
\* lo..hi.  A match lies within one run of [a-zA-Z'] characters, so the runs are
\* scanned one by one, those left of the middle first.
RECURSIVE FindWordsIn(_, _, _)
FindWordsIn(text, lo, hi) ==
  IF lo > hi THEN <<>>
  ELSE LET mid == (lo + hi) \div 2
       IN  IF ~IsTokenChar(text[mid])
           THEN FindWordsIn(text, lo, mid - 1) \o FindWordsIn(text, mid + 1, hi)
           ELSE LET s == RunStart(text, mid)
                    e == s + TokenRun(text, s) - 1
                IN  FindWordsIn(text, lo, s - 1) \o RunWords(text, s, e)
                      \o FindWordsIn(text, e + 1, hi)

\* re.findall(r"\b[a-zA-Z']+\b", text)
FindWords(text) == FindWordsIn(text, 1, Len(text))

\* [w for w in words if w not in stopwords]
Filtered(words) ==
  LET Kept(w) == w \notin stopwords IN SelectSeq(words, Kept)

\* " ".join(df["Message"].tolist()).lower()
AllText(df) == Lower(Join([i \in DOMAIN df |-> df[i].Message], <<" ">>))

\* the words WordCloud.generate counts: a trailing 's is cut, then its own
\* STOPWORDS are left out
CloudWord(w) ==
  IF Len(w) >= 2 /\ SubSeq(w, Len(w) - 1, Len(w)) = <<"'", "s">>
  THEN SubSeq(w, 1, Len(w) - 2) ELSE w
CloudWords(filtered) ==
  {CloudWord(filtered[i]) : i \in DOMAIN filtered} \ STOPWORDS

\* WordCloud.generate raises ValueError("We need at least 1 word to plot a word
\* cloud, got 0.") when no word is left
GenerateRaises(filtered) == CloudWords(filtered) = {}

-----------------------------------------------------------------------------
(* Heatmap, emoji, reply lag and timeline tabs *)

\* pivot_table(index="User", columns="Hour", values="Message", aggfunc="count",
\* fill_value=0)
Pivot(df) ==
  [u \in {df[i].User : i \in DOMAIN df}, h \in {df[i].Datetime[4] : i \in DOMAIN df} |->
     Cardinality({i \in DOMAIN df : df[i].User = u /\ df[i].Datetime[4] = h})]

\* "".join(ch for ch in x if ch in emoji.EMOJI_DATA), over all messages
EmojisOf(s) ==
  LET IsEmoji(ch) == ch \in EMOJI_DATA IN SelectSeq(s, IsEmoji)
AllEmojis(df) == EmojisOf(Join([i \in DOMAIN df |-> df[i].Message], <<>>))

\* as LagOf, were a negative lag clamped to 0
LagOfClamped(df, i) ==
  IF df[i].Minutes < df[i - 1].Minutes THEN 0 ELSE df[i].Minutes - df[i - 1].Minutes

\* the lag a reply event records
LagOf(df, i) == df[i].Minutes - df[i - 1].Minutes

\* the loop over range(1, len(df)), up to row n: one entry per row whose sender
\* differs from the row before
RECURSIVE Lags(_, _)
Lags(df, n) ==
  IF n < 2 THEN <<>>
  ELSE LET prev_user == df[n - 1].User
           curr_user == df[n].User
       IN  Lags(df, n - 1) \o
           (IF prev_user # curr_user THEN <<<<prev_user, curr_user, LagOf(df, n)>>>>
            ELSE <<>>)

\* as ShowsLagTable, were the table kept for two events or more
ShowsLagTableFromTwo(lags) == Len(lags) >= 2

\* "if lags:": the table is shown for a non-empty list
ShowsLagTable(lags) == lags # <<>>

RECURSIVE SumLags(_, _)
SumLags(lags, idx) ==
  IF idx = {} THEN 0
  ELSE LET i == CHOOSE x \in idx : TRUE IN lags[i][3] + SumLags(lags, idx \ {i})

\* lag_df.groupby("Responder")["Lag_Min"].mean().round(2), in hundredths
AvgLag(lags) ==
  [r \in {lags[i][2] : i \in DOMAIN lags} |->
     LET idx == {i \in DOMAIN lags : lags[i][2] = r}
     IN  RoundedRatio(SumLags(lags, idx), Cardinality(idx), 100)]

\* n as w digits, zero padded
RECURSIVE Pad(_, _)
Pad(n, w) == IF w = 0 THEN <<>> ELSE Pad(n \div 10, w - 1) \o <<DigitSeq[(n % 10) + 1]>>

\* dt.strftime("%Y-%m-%d %H:%M")
Strftime(dt) ==
  Pad(dt[1], 4) \o <<"-">> \o Pad(dt[2], 2) \o <<"-">> \o Pad(dt[3], 2) \o <<" ">>
    \o Pad(dt[4], 2) \o <<":">> \o Pad(dt[5], 2)

-----------------------------------------------------------------------------
(* One run of the script *)

VARIABLES
  pc,            \* where the script is
  lines,         \* the lines of the uploaded file
  text,          \* the text handed to parse_chat
  df,            \* the rows of the data frame
  failedAt,      \* the call whose exception ended the run, "" when none did
  total, daywise, userwise,   \* what summarize_data returned
  daily_counts,  \* Overview: messages per day
  filtered,      \* WordCloud: the words left after the stopwords
  freq,          \* WordCloud: the word table
  Hour,          \* Heatmap: the Hour column added to df
  pivot,         \* Heatmap: messages per user and hour
  top10,         \* Emoji Stats: the emoji table
  emojiView,     \* Emoji Stats: "table", "info", or "" before the tab ran
  lags,          \* Reply Lag: the reply events
  lagView,       \* Reply Lag: "table", "info", or "" before the tab ran
  avg_lag,       \* Reply Lag: mean lag per responder, in hundredths of a minute
  Timestamp      \* Timeline: the Timestamp column added to df

vars ==
  <<pc, lines, text, df, failedAt, total, daywise, userwise, daily_counts, filtered, freq,
    Hour, pivot, top10, emojiView, lags, lagView, avg_lag, Timestamp>>

summaryVars == <<total, daywise, userwise>>
tabVars ==
  <<daily_counts, filtered, freq, Hour, pivot, top10, emojiView, lags, lagView, avg_lag,
    Timestamp>>

Init ==
  /\ pc = "upload"
  /\ lines = <<>>
  /\ text = <<>>
  /\ df = <<>>
  /\ failedAt = ""
  /\ total = <<>> /\ daywise = <<>> /\ userwise = <<>>
  /\ daily_counts = <<>>
  /\ filtered = <<>> /\ freq = <<>>
  /\ Hour = <<>> /\ pivot = <<>>
  /\ top10 = <<>> /\ emojiView = ""
  /\ lags = <<>> /\ lagView = "" /\ avg_lag = <<>>
  /\ Timestamp = <<>>

\* the user puts one more line into the file to upload
AppendLine(l) ==
  /\ pc = "upload"
  /\ Len(lines) < MaxLines
  /\ lines' = Append(lines, l)
  /\ UNCHANGED <<pc, text, df, failedAt, summaryVars, tabVars>>

\* "if uploaded:": the text is the uploaded file
Upload ==
  /\ pc = "upload"
  /\ text' = Join(lines, <<"\n">>)
  /\ pc' = "parse"
  /\ UNCHANGED <<lines, df, failedAt, summaryVars, tabVars>>

\* "else:": nothing was uploaded and the text is default_chat
UseDefault ==
  /\ pc = "upload"
  /\ lines = <<>>
  /\ text' = default_chat
  /\ pc' = "parse"
  /\ UNCHANGED <<lines, df, failedAt, summaryVars, tabVars>>

\* df = parse_chat(text)
ParseChat ==
  /\ pc = "parse"
  /\ LET r == parse_chat(text)
     IN  IF r.raised
         THEN /\ pc' = "crashed"
              /\ failedAt' = "parse_chat"
              /\ df' = df
         ELSE /\ pc' = "parsed"
              /\ failedAt' = failedAt
              /\ df' = r.rows
  /\ UNCHANGED <<lines, text, summaryVars, tabVars>>

\* "if df.empty:": the warning, then st.stop()
NoMessages ==
  /\ pc = "parsed"
  /\ df = <<>>
  /\ pc' = "stopped"
  /\ UNCHANGED <<lines, text, df, failedAt, summaryVars, tabVars>>

\* total, daywise, userwise = summarize_data(df)
SummarizeData ==
  /\ pc = "parsed"
  /\ df # <<>>
  /\ total' = Totals(df)
  /\ daywise' = Daywise(df)
  /\ userwise' = Userwise(df)
  /\ pc' = "overview"
  /\ UNCHANGED <<lines, text, df, failedAt, tabVars>>

OverviewTab ==
  /\ pc = "overview"
  /\ LET g == GroupBy(df, DateKey(df))
     IN  daily_counts' = [d \in DOMAIN g |-> CountMessages(df, g[d])]
  /\ pc' = "wordcloud"
  /\ UNCHANGED <<lines, text, df, failedAt, summaryVars, filtered, freq, Hour, pivot, top10,
                 emojiView, lags, lagView, avg_lag, Timestamp>>

WordCloudTab ==
  /\ pc = "wordcloud"
  /\ LET words == FindWords(AllText(df))
         kept  == Filtered(words)
     IN  /\ filtered' = kept
         /\ freq' = most_common(kept, TopWords)
         /\ IF GenerateRaises(kept)
            THEN pc' = "crashed" /\ failedAt' = "WordCloud.generate"
            ELSE pc' = "heatmap" /\ failedAt' = failedAt
  /\ UNCHANGED <<lines, text, df, summaryVars, daily_counts, Hour, pivot, top10, emojiView,
                 lags, lagView, avg_lag, Timestamp>>

HeatmapTab ==
  /\ pc = "heatmap"
  /\ Hour' = [i \in DOMAIN df |-> df[i].Datetime[4]]
  /\ pivot' = Pivot(df)
  /\ pc' = "emoji"
  /\ UNCHANGED <<lines, text, df, failedAt, summaryVars, daily_counts, filtered, freq, top10,
                 emojiView, lags, lagView, avg_lag, Timestamp>>

EmojiTab ==
  /\ pc = "emoji"
  /\ LET t == most_common(AllEmojis(df), TopEmojis)
     IN  /\ top10' = t
         /\ emojiView' = IF t # <<>> THEN "table" ELSE "info"
  /\ pc' = "replylag"
  /\ UNCHANGED <<lines, text, df, failedAt, summaryVars, daily_counts, filtered, freq, Hour,
                 pivot, lags, lagView, avg_lag, Timestamp>>

ReplyLagTab ==
  /\ pc = "replylag"
  /\ LET l == Lags(df, Len(df))
     IN  /\ lags' = l
         /\ IF ShowsLagTable(l)
            THEN lagView' = "table" /\ avg_lag' = AvgLag(l)
            ELSE lagView' = "info" /\ avg_lag' = avg_lag
  /\ pc' = "timeline"
  /\ UNCHANGED <<lines, text, df, failedAt, summaryVars, daily_counts, filtered, freq, Hour,
                 pivot, top10, emojiView, Timestamp>>

TimelineTab ==
  /\ pc = "timeline"
  /\ Timestamp' = [i \in DOMAIN df |-> Strftime(df[i].Datetime)]
  /\ pc' = "done"
  /\ UNCHANGED <<lines, text, df, failedAt, summaryVars, daily_counts, filtered, freq, Hour,
                 pivot, top10, emojiView, lags, lagView, avg_lag>>

Next ==
  \/ \E l \in SampleLines : AppendLine(l)
  \/ Upload
  \/ UseDefault
  \/ ParseChat
  \/ NoMessages
  \/ SummarizeData
  \/ OverviewTab
  \/ WordCloudTab
  \/ HeatmapTab
  \/ EmojiTab
  \/ ReplyLagTab
  \/ TimelineTab

Spec == Init /\ [][Next]_vars

-----------------------------------------------------------------------------
(* What the claims speak of *)

\* parse_chat has just returned
Parsed == pc = "parsed"
\* parse_chat has just returned or raised
ParseEnded == Parsed \/ failedAt = "parse_chat"
\* the text is the uploaded file, one line of the file per line of the text
FromUpload == text = Join(lines, <<"\n">>)
\* summarize_data has just returned
SummaryRan == pc = "overview"
\* the WordCloud tab has just run, to its end or to the exception
WordTabRan == pc = "heatmap" \/ failedAt = "WordCloud.generate"
\* the Reply Lag tab has just run
LagTabRan == pc = "timeline"

\* the fixed format DD/MM/YYYY, HH:MM - Sender: Body, "d" for a digit
LineShape ==
  <<"d", "d", "/", "d", "d", "/", "d", "d", "d", "d", ",", " ", "d", "d", ":", "d", "d",
    " ", "-", " ">>

\* where the sender of a line in the fixed format ends: at its first colon
SenderColon(l) ==
  CHOOSE c \in (Len(LineShape) + 1)..Len(l) :
    l[c] = ":" /\ \A j \in (Len(LineShape) + 1)..(c - 1) : l[j] # ":"
SenderOf(l) == SubSeq(l, Len(LineShape) + 1, SenderColon(l) - 1)
BodyOf(l) == SubSeq(l, SenderColon(l) + 2, Len(l))

\* the line is in the fixed format, whole, with a date and time that exist
WellFormedLine(l) ==
  /\ Len(l) >= Len(LineShape) + 3
  /\ "\n" \notin Range(l)
  /\ \A i \in DOMAIN LineShape :
       IF LineShape[i] = "d" THEN IsDigit(l[i]) ELSE l[i] = LineShape[i]
  /\ \E c \in (Len(LineShape) + 2)..(Len(l) - 1) :
       /\ l[c] = ":" /\ l[c + 1] = " "
       /\ \A j \in (Len(LineShape) + 1)..(c - 1) : l[j] # ":"
  /\ LET day == Num2(SubSeq(l, 1, 2))
         mon == Num2(SubSeq(l, 4, 5))
         yr  == Num4(SubSeq(l, 7, 10))
     IN  /\ yr >= 1 /\ mon \in 1..12 /\ day >= 1 /\ day <= DaysInMonth(yr, mon)
         /\ Num2(SubSeq(l, 13, 14)) <= 23
         /\ Num2(SubSeq(l, 16, 17)) <= 59

\* the line, taken alone, matches the pattern
LineMatches(l) == FindAll(l, 1) # <<>>

\* the rows that are a reply event: the sender differs from the row before
EventRows(d) == {i \in 2..Len(d) : d[i].User # d[i - 1].User}

FirstPos(items, x) == CHOOSE i \in DOMAIN items : items[i] = x /\ \A j \in 1..(i - 1) : items[j] # x

RECURSIVE SumMessages(_, _)
SumMessages(rows, keys) ==
  IF keys = {} THEN 0
  ELSE LET k == CHOOSE x \in keys : TRUE
       IN  rows[k].Messages + SumMessages(rows, keys \ {k})

-----------------------------------------------------------------------------
(* Claims *)

\* C1: parse_chat never fails: a line in the DD/MM/YYYY, HH:MM shape whose date or
\* time does not exist is left out, every other matching line yields its record,
\* and no error reaches the caller.
C1_ParseNeverFails ==
  ParseEnded =>
    /\ failedAt # "parse_chat"
    /\ LET ms == FindAll(text, 1)
       IN  Len(df) = Cardinality({i \in DOMAIN ms :
                       Strptime(ms[i].date_str, ms[i].hour, ms[i].minute).ok})

\* C2: with a non-empty record sequence no analysis ends the run: an empty result
\* in one analysis does not keep the others from running.
C2_NoAnalysisFatal == df # <<>> => pc # "crashed"

\* C3: when every line of the input is in the fixed format with a date and time
\* that exist, parse_chat returns one record per line, the i-th with the sender and
\* the body of the i-th line.
C3_OneRecordPerLine ==
  (/\ ParseEnded
   /\ FromUpload
   /\ \A i \in DOMAIN lines : WellFormedLine(lines[i])) =>
    /\ failedAt # "parse_chat"
    /\ Len(df) = Len(lines)
    /\ \A i \in DOMAIN lines :
         /\ df[i].User = Strip(SenderOf(lines[i]))
         /\ df[i].Message = Strip(BodyOf(lines[i]))

\* C3, its case: two or more lines, all well formed and not all the same, parsed
C3_Witness ==
  /\ pc = "parsed"
  /\ FromUpload
  /\ Len(lines) >= 2
  /\ lines[1] # lines[2]
  /\ \A i \in DOMAIN lines : WellFormedLine(lines[i])
  /\ Len(df) = Len(lines)

\* C4: every physical line is judged alone: a line that does not match by itself
\* is dropped, the record count is the number of lines that match, and no record
\* holds text of more than one line.
C4_LinesIndependent ==
  (Parsed /\ FromUpload) =>
    /\ Len(df) = Cardinality({i \in DOMAIN lines : LineMatches(lines[i])})
    /\ \A i \in DOMAIN df :
         "\n" \notin Range(df[i].User) /\ "\n" \notin Range(df[i].Message)

\* C5: every record's sender is non-empty after trimming.
C5_SenderNonEmpty == \A i \in DOMAIN df : df[i].User # <<>>

\* C6 as claimed: the reply-lag tab reports "insufficient data" whenever fewer than
\* 2 reply events exist and shows the lag table only when at least 2 exist.
C6_TableNeedsTwoEvents ==
  LagTabRan =>
    /\ (lagView = "info") <=> (Cardinality(EventRows(df)) < 2)
    /\ (lagView = "table") <=> (Cardinality(EventRows(df)) >= 2)

\* C6 as amended: the reply-lag tab reports "insufficient data" exactly when no reply
\* event exists and shows the per-responder lags whenever at least 1 exists; in
\* neither case is an error raised.
C6_TableNeedsOneEvent ==
  LagTabRan =>
    /\ (lagView = "info") <=> (EventRows(df) = {})
    /\ (lagView = "table") <=> (Cardinality(EventRows(df)) >= 1)
    /\ lagView = "table" => DOMAIN avg_lag = {df[i].User : i \in EventRows(df)}
    /\ failedAt = ""

\* C6, its case: exactly one reply event, and the table is shown
C6_Witness == LagTabRan /\ Cardinality(EventRows(df)) = 1 /\ lagView = "table"

\* C7: a reply event is recorded for row i exactly when its sender differs from
\* row i-1's; its lag is Minutes[i] - Minutes[i-1], negative when the rows are out
\* of order, and its responder is the sender of row i.  A at 10:00 then B at 10:05
\* is one event, lag 5, responder B.
C7_ReplyEvents ==
  LagTabRan =>
    /\ Len(lags) = Cardinality(EventRows(df))
    /\ \A i \in EventRows(df) :
         LET k == Cardinality({j \in EventRows(df) : j <= i})
         IN  lags[k] = <<df[i - 1].User, df[i].User, df[i].Minutes - df[i - 1].Minutes>>
    /\ text = LineStopwords \o <<"\n">> \o LineReply => lags = << <<<<"A">>, <<"B">>, 5>> >>
    /\ text = LineReply \o <<"\n">> \o LineEarlier => lags = << <<<<"B">>, <<"A">>, -65>> >>
    /\ text = LineReply \o <<"\n">> \o LineManyWords => lags = << <<<<"B">>, <<"C">>, 835>> >>

\* C7, its case: a negative lag, and a pair of rows of one sender that is no event
C7_Witness ==
  /\ LagTabRan
  /\ \E k \in DOMAIN lags : lags[k][3] < 0
  /\ \E i \in 2..Len(df) : df[i].User = df[i - 1].User

\* C8: the per-user summary partitions the total: every record is counted in the
\* row of its sender and in no other, and the per-user message counts add up to the
\* total message count.
C8_UserwisePartitionsTotal ==
  SummaryRan =>
    /\ DOMAIN userwise = {df[i].User : i \in DOMAIN df}
    /\ \A u \in DOMAIN userwise :
         userwise[u].Messages = Cardinality({i \in DOMAIN df : df[i].User = u})
    /\ SumMessages(userwise, DOMAIN userwise) = total.Messages
    /\ total.Messages = Len(df)

\* C8, its case: several users, one with several messages, one message empty
C8_Witness ==
  /\ SummaryRan
  /\ Cardinality(DOMAIN userwise) >= 2
  /\ \E u \in DOMAIN userwise : userwise[u].Messages >= 2
  /\ \E i \in DOMAIN df : df[i].Message = <<>>

\* C9: letter_count is the number of characters of the stored body, which is the
\* message text trimmed.
C9_LettersCountBody == \A i \in DOMAIN df : df[i].Letters = Len(df[i].Message)

\* C10: the word table holds no stopword, at most 25 entries, in descending order
\* of count with ties in the order the words were first met, each with the number
\* of times the word occurs; "the cat and the hat" gives cat: 1, hat: 1.
C10_WordTable ==
  WordTabRan =>
    LET tokens == FindWords(AllText(df))
        listed == {freq[k][1] : k \in DOMAIN freq}
        before(v, w) ==
          \/ Occurrences(tokens, v) > Occurrences(tokens, w)
          \/ /\ Occurrences(tokens, v) = Occurrences(tokens, w)
             /\ FirstPos(tokens, v) < FirstPos(tokens, w)
    IN  /\ Len(freq) <= 25
        /\ listed \cap stopwords = {}
        /\ listed \subseteq Range(tokens)
        /\ \A k \in DOMAIN freq : freq[k][2] = Occurrences(tokens, freq[k][1])
        /\ \A k \in 1..(Len(freq) - 1) : before(freq[k][1], freq[k + 1][1])
        /\ \A w \in Range(tokens) \ (stopwords \cup listed) :
             Len(freq) = 25 /\ before(freq[25][1], w)
        /\ text = LineStopwords =>
             freq = << <<<<"c", "a", "t">>, 1>>, <<<<"h", "a", "t">>, 1>> >>

\* C10, its case: more than 25 distinct words, a word that counts more than the
\* next, and words that tie
C10_Witness ==
  /\ WordTabRan
  /\ Len(freq) = 25
  /\ Cardinality(Range(filtered)) > 25
  /\ freq[1][2] > freq[2][2]
  /\ freq[2][2] = freq[3][2]

=============================================================================
